---------------------------- MODULE Spec2Model ----------------------------
(***************************************************************************)
(* ducktoken.py: interactive creation of duck.com e-mail aliases.          *)
(*                                                                         *)
(* The script is one sequential pipeline (ducktoken.py:258-263):           *)
(*   get_count_of_addresses, get_username, send_otp_email, get_token,      *)
(*   get_bearer_token, get_email_addresses.                                *)
(* Every input() is one step; every blocking HTTP call is two steps, the   *)
(* request being issued and the call coming back (response or exception).  *)
(* Typed text is a sequence of one-character strings; values the provider  *)
(* returns (tokens, addresses) are opaque strings.                         *)
(***************************************************************************)
EXTENDS Integers, Sequences, FiniteSets, TLC

VARIABLES
    pc,            \* position of the script
    exit_status,   \* process exit status, Running while the script runs
    raised,        \* class of the exception that ended the run, "none" if none
    count,         \* get_count_of_addresses: the text typed at the prompt
    email_count,   \* module level: result of get_count_of_addresses
    duck_username, \* get_username: the text typed at the prompt
    username,      \* module level: result of get_username
    otp_input,     \* get_token: the text typed at the OTP prompt
    token,         \* module level: result of get_token
    bearer_token,  \* module level: result of get_bearer_token
    i,             \* get_email_addresses: loop variable
    request,       \* the last HTTP request handed to requests.get/post
    response,      \* what the last HTTP call came back with
    stdout,        \* the "Email #n: ..." lines printed so far
    events         \* observable events of the run, in order

vars == <<pc, exit_status, raised, count, email_count,
                   duck_username, username,
          otp_input, token, bearer_token, i, request, response, stdout, events>>

----------------------------------------------------------------------------
(* Bounds of the model *)

MaxCountLen == 2
MaxUserLen == 2
MaxOtpLen == 2

(* Characters typed at the prompts.  "sup2" stands for U+00B2 (superscript *)
(* two: str.isdigit is True, int() raises ValueError) and "fw3" for U+FF13 *)
(* (fullwidth three: str.isdigit is True, int() gives 3).                  *)
AsciiDigits == {"0", "1", "2", "3", "4", "5", "6", "7", "8", "9"}
CountChars == {"0", "1", "2", "3", "4", "5", "6", "-", " ", "x", "sup2", "fw3"}
UserChars == {"a", "@"}
OtpChars == {"1", " "}

SeqsUpTo(S, n) == UNION {[1..k -> S] : k \in 0..n}

CountInputs == SeqsUpTo(CountChars, MaxCountLen)
UserInputs == SeqsUpTo(UserChars, MaxUserLen)
OtpInputs == SeqsUpTo(OtpChars, MaxOtpLen)

(* Values the provider may put in its JSON bodies *)
TokenVals == {"", "tokA", "tokB"}
AccessVals == {"", "accA", "accB"}
AddressVals == {"abc123", "xyz789"}
Statuses == {200, 404}

Running == -1
UNSET == "<unset>"

Range(s) == {s[k] : k \in 1..Len(s)}

----------------------------------------------------------------------------
(* Python built-ins the script relies on *)

\* str.isdigit(): non-empty and every character is a digit character
str_isdigit(s) ==
    Len(s) > 0 /\ \A k \in 1..Len(s) : s[k] \in AsciiDigits \cup {"sup2", "fw3"}

DigitVal(c) ==
    CASE c = "0" -> 0 [] c = "1" -> 1 [] c = "2" -> 2 [] c = "3" -> 3
      [] c = "4" -> 4 [] c = "5" -> 5 [] c = "6" -> 6 [] c = "7" -> 7
      [] c = "8" -> 8 [] c = "9" -> 9 [] c = "fw3" -> 3 [] OTHER -> 0

RECURSIVE DecimalValue(_)
DecimalValue(s) ==
    IF Len(s) = 0 THEN 0
    ELSE 10 * DecimalValue(SubSeq(s, 1, Len(s) - 1)) + DigitVal(s[Len(s)])

\* int(s) for a string that passed isdigit(): ok = FALSE is ValueError
str_int(s) ==
    IF \A k \in 1..Len(s) : s[k] \in AsciiDigits \cup {"fw3"}
    THEN [ok |-> TRUE, val |-> DecimalValue(s)]
    ELSE [ok |-> FALSE, val |-> 0]

\* str.replace(old, new)
RECURSIVE str_replace(_, _, _)
str_replace(s, old, new) ==
    IF Len(s) = 0 THEN <<>>
    ELSE <<IF Head(s) = old THEN new ELSE Head(s)>>
         \o str_replace(Tail(s), old, new)

----------------------------------------------------------------------------
(* HTTP: requests and what a call comes back with *)

NoRequest == [ep |-> "none", user |-> <<>>, otp |-> <<>>, auth |-> ""]
NoResponse == [exc |-> FALSE, status |-> 0, json |-> FALSE,
               user |-> FALSE, has |-> FALSE, val |-> ""]

\* requests raised a RequestException: connection error or the 30 s timeout
TransportFailure == [exc |-> TRUE, status |-> 0, json |-> FALSE,
                     user |-> FALSE, has |-> FALSE, val |-> ""]

\* a response whose body is not JSON
NotJson(st) == [exc |-> FALSE, status |-> st, json |-> FALSE,
                user |-> FALSE, has |-> FALSE, val |-> ""]

\* a response whose body is a JSON object; user: it has a "user" object,
\* has: the expected field is there, val: the value of that field
Json(st, u, h, v) == [exc |-> FALSE, status |-> st, json |-> TRUE,
                      user |-> u, has |-> h, val |-> v]

LoginLinkResponses ==
    {TransportFailure} \cup {NotJson(st) : st \in Statuses}

LoginResponses ==
    {TransportFailure}
    \cup {NotJson(st) : st \in Statuses}
    \cup {Json(st, FALSE, FALSE, "") : st \in Statuses}
    \cup {Json(st, FALSE, TRUE, v) : st \in Statuses, v \in TokenVals}

DashboardResponses ==
    {TransportFailure}
    \cup {NotJson(st) : st \in Statuses}
    \cup {Json(st, FALSE, FALSE, "") : st \in Statuses}
    \cup {Json(st, TRUE, FALSE, "") : st \in Statuses}
    \cup {Json(st, TRUE, TRUE, v) : st \in Statuses, v \in AccessVals}

AddressResponses ==
    {TransportFailure}
    \cup {NotJson(st) : st \in Statuses}
    \cup {Json(st, FALSE, FALSE, "") : st \in Statuses}
    \cup {Json(st, FALSE, TRUE, v) : st \in Statuses, v \in AddressVals}

\* the status never looked at
raise_for_status_never(r) == FALSE

\* response.raise_for_status(): TRUE when it raises HTTPError
raise_for_status(r) == r.status \notin 200..299

----------------------------------------------------------------------------
(* How a run ends *)

\* sys.exit(n)
SysExit(n) ==
    /\ pc' = "exited"
    /\ exit_status' = n
    /\ raised' = "SystemExit"

\* an exception nothing catches: traceback, interpreter exits with status 1
Raise(exc) ==
    /\ pc' = "exited"
    /\ exit_status' = 1
    /\ raised' = exc

\* the script runs off its last line
EndOfScript ==
    /\ pc' = "exited"
    /\ exit_status' = 0
    /\ raised' = "none"

Emit(e) == events' = Append(events, e)

----------------------------------------------------------------------------
Init ==
    /\ pc = "count"
    /\ exit_status = Running
    /\ raised = "none"
    /\ count = <<>>
    /\ email_count = 0
    /\ duck_username = <<>>
    /\ username = <<>>
    /\ otp_input = <<>>
    /\ token = UNSET
    /\ bearer_token = UNSET
    /\ i = 0
    /\ request = NoRequest
    /\ response = NoResponse
    /\ stdout = <<>>
    /\ events = <<>>


----------------------------------------------------------------------------
(* get_count_of_addresses, ducktoken.py:36-43 *)

\* the lower limit forgotten
count_out_of_range_no_lower(n) == n > 5

\* int(count) > 5 or int(count) < 1
count_out_of_range(n) == n > 5 \/ n < 1

get_count_of_addresses ==
    /\ pc = "count"
    /\ \E typed \in CountInputs :
        /\ count' = typed
        /\ Emit("prompt_count")
        /\ IF ~str_isdigit(typed)
           THEN Raise("TypeError") /\ UNCHANGED email_count
           ELSE IF ~str_int(typed).ok
           THEN Raise("ValueError") /\ UNCHANGED email_count
           ELSE IF count_out_of_range(str_int(typed).val)
           THEN Raise("ValueError") /\ UNCHANGED email_count
           ELSE /\ email_count' = str_int(typed).val
                /\ pc' = "username"
                /\ UNCHANGED <<exit_status, raised>>
    /\ UNCHANGED <<duck_username, username, otp_input, token, bearer_token, i,
                   request, response, stdout>>

----------------------------------------------------------------------------
(* get_username, ducktoken.py:61-66 *)

\* only a leading "@" noticed
has_at_leading(s) == Len(s) > 0 /\ s[1] = "@"

\* r'@' in duck_username
has_at(s) == "@" \in Range(s)

get_username ==
    /\ pc = "username"
    /\ \E typed \in UserInputs :
        /\ duck_username' = typed
        /\ Emit("prompt_username")
        /\ IF has_at(typed)
           THEN Raise("ValueError") /\ UNCHANGED username
           ELSE /\ username' = typed
                /\ pc' = "loginlink"
                /\ UNCHANGED <<exit_status, raised>>
    /\ UNCHANGED <<count, email_count, otp_input, token, bearer_token, i,
                   request, response, stdout>>

----------------------------------------------------------------------------
(* send_otp_email, ducktoken.py:90-101 *)

\* the error printed without sys.exit
send_otp_email_except_no_exit == pc' = "otp" /\ UNCHANGED <<exit_status, raised>>

\* except requests.exceptions.RequestException: print, sys.exit(1)
send_otp_email_except == SysExit(1)

send_otp_email_request ==
    /\ pc = "loginlink"
    /\ request' = [ep |-> "loginlink", user |-> username, otp |-> <<>>,
                   auth |-> ""]
    /\ Emit("req_loginlink")
    /\ pc' = "loginlink_wait"
    /\ UNCHANGED <<exit_status, raised, count, email_count,
                   duck_username, username,
                   otp_input, token, bearer_token, i, response, stdout>>

send_otp_email_response ==
    /\ pc = "loginlink_wait"
    /\ \E r \in LoginLinkResponses :
        /\ response' = r
        /\ Emit("resp_loginlink")
        /\ IF r.exc \/ raise_for_status(r)
           THEN send_otp_email_except
           ELSE pc' = "otp" /\ UNCHANGED <<exit_status, raised>>
    /\ UNCHANGED <<count, email_count,
                   duck_username, username, otp_input, token,
                   bearer_token, i, request, stdout>>

----------------------------------------------------------------------------
(* get_token, ducktoken.py:129-153 *)

\* the OTP put into the login URL: line 135 computes
\* otp_input.replace(' ', '+') and drops the result, strings being
\* immutable, so line 138 interpolates what was typed
otp_in_url(typed) == typed

\* the OTP asked for again after a failed login call
get_token_except_retry == pc' = "otp" /\ UNCHANGED <<exit_status, raised, token>>

\* except requests.exceptions.RequestException: print, sys.exit(1)
get_token_except == SysExit(1) /\ UNCHANGED token

get_token_input ==
    /\ pc = "otp"
    /\ \E typed \in OtpInputs : otp_input' = typed
    /\ Emit("prompt_otp")
    /\ pc' = "login"
    /\ UNCHANGED <<exit_status, raised, count, email_count,
                   duck_username, username, token,
                   bearer_token, i, request, response, stdout>>

get_token_request ==
    /\ pc = "login"
    /\ request' = [ep |-> "login", user |-> username,
                   otp |-> otp_in_url(otp_input), auth |-> ""]
    /\ Emit("req_login")
    /\ pc' = "login_wait"
    /\ UNCHANGED <<exit_status, raised, count, email_count,
                   duck_username, username,
                   otp_input, token, bearer_token, i, response, stdout>>

\* .json() on a body that is not JSON raises requests' JSONDecodeError, a
\* RequestException; response['token'] on an object without the key raises
\* KeyError, which "except ValueError" does not catch
get_token_response ==
    /\ pc = "login_wait"
    /\ \E r \in LoginResponses :
        /\ response' = r
        /\ Emit("resp_login")
        /\ IF r.exc \/ ~r.json
           THEN get_token_except
           ELSE IF ~r.has
           THEN Raise("KeyError") /\ UNCHANGED token
           ELSE /\ token' = r.val
                /\ pc' = "dashboard"
                /\ UNCHANGED <<exit_status, raised>>
    /\ UNCHANGED <<count, email_count,
                   duck_username, username, otp_input, bearer_token, i,
                   request, stdout>>

----------------------------------------------------------------------------
(* get_bearer_token, ducktoken.py:181-206 *)

\* the precondition dropped
not_a_token_never(t) == FALSE

\* not a_token
not_a_token(t) == t = ""

\* the header value returned instead of the bare token
access_token_of_header(r) == "Bearer " \o r.val

\* response['user']['access_token']
access_token_of(r) == r.val

get_bearer_token_request ==
    /\ pc = "dashboard"
    /\ IF not_a_token(token)
       THEN Raise("ValueError") /\ UNCHANGED <<request, events>>
       ELSE /\ request' = [ep |-> "dashboard", user |-> <<>>, otp |-> <<>>,
                           auth |-> token]
            /\ Emit("req_dashboard")
            /\ pc' = "dashboard_wait"
            /\ UNCHANGED <<exit_status, raised>>
    /\ UNCHANGED <<count, email_count,
                   duck_username, username, otp_input, token,
                   bearer_token, i, response, stdout>>

get_bearer_token_response ==
    /\ pc = "dashboard_wait"
    /\ \E r \in DashboardResponses :
        /\ response' = r
        /\ Emit("resp_dashboard")
        /\ IF r.exc \/ ~r.json
           THEN SysExit(1) /\ UNCHANGED bearer_token
           ELSE IF ~r.user \/ ~r.has
           THEN Raise("KeyError") /\ UNCHANGED bearer_token
           ELSE /\ bearer_token' = access_token_of(r)
                /\ pc' = "addresses"
                /\ UNCHANGED <<exit_status, raised>>
    /\ UNCHANGED <<count, email_count,
                   duck_username, username, otp_input, token, i,
                   request, stdout>>

----------------------------------------------------------------------------
(* get_email_addresses, ducktoken.py:236-255 *)

DOMAIN_SUFFIX == "@duck.com"

\* the zero-based loop variable printed
email_line_zero_based(n, email) == [index |-> n, text |-> email \o DOMAIN_SUFFIX]

\* print(f'Email #{i+1}: {email}@duck.com')
email_line(n, email) == [index |-> n + 1, text |-> email \o DOMAIN_SUFFIX]

\* one iteration too many
next_iteration_inclusive(n, cnt) == n + 1 <= cnt

\* a loop that never ends
next_iteration_always(n, cnt) == TRUE

\* for i in range(count): is there another iteration after iteration n
next_iteration(n, cnt) == n + 1 < cnt

\* the print dedented out of the loop: only the last address is printed
get_email_addresses_print_after_loop(r) ==
    IF next_iteration(i, email_count)
    THEN /\ UNCHANGED stdout
         /\ Emit("resp_addresses")
    ELSE /\ stdout' = Append(stdout, email_line(i, r.val))
         /\ events' = events \o <<"resp_addresses", "line">>

\* email = response['address']; print(...), right after the call returned
get_email_addresses_print(r) ==
    /\ stdout' = Append(stdout, email_line(i, r.val))
    /\ events' = events \o <<"resp_addresses", "line">>

\* the failed alias skipped and the loop carried on
get_email_addresses_except_skip ==
    /\ UNCHANGED stdout
    /\ IF next_iteration(i, email_count)
       THEN /\ i' = i + 1
            /\ pc' = "addresses"
            /\ UNCHANGED <<exit_status, raised>>
       ELSE EndOfScript /\ UNCHANGED i

\* sys.exit() without a status
get_email_addresses_except_exit0 == SysExit(0) /\ UNCHANGED <<i, stdout>>

\* except requests.exceptions.RequestException: print, sys.exit(1)
get_email_addresses_except == SysExit(1) /\ UNCHANGED <<i, stdout>>

\* the authentication token put into the header
addresses_authorization_a_token == token

\* headers: 'Authorization': f'Bearer {b_token}'
addresses_authorization == bearer_token

get_email_addresses_request ==
    /\ pc = "addresses"
    /\ IF email_count <= 0
       THEN Raise("ValueError") /\ UNCHANGED <<request, events>>
       ELSE /\ request' = [ep |-> "addresses", user |-> <<>>, otp |-> <<>>,
                           auth |-> addresses_authorization]
            /\ Emit("req_addresses")
            /\ pc' = "addresses_wait"
            /\ UNCHANGED <<exit_status, raised>>
    /\ UNCHANGED <<count, email_count,
                   duck_username, username, otp_input, token,
                   bearer_token, i, response, stdout>>

get_email_addresses_response ==
    /\ pc = "addresses_wait"
    /\ \E r \in AddressResponses :
        /\ response' = r
        /\ IF r.exc \/ ~r.json
           THEN get_email_addresses_except /\ Emit("resp_addresses")
           ELSE IF ~r.has
           THEN /\ Raise("KeyError")
                /\ Emit("resp_addresses")
                /\ UNCHANGED <<i, stdout>>
           ELSE /\ get_email_addresses_print(r)
                /\ IF next_iteration(i, email_count)
                   THEN /\ i' = i + 1
                        /\ pc' = "addresses"
                        /\ UNCHANGED <<exit_status, raised>>
                   ELSE EndOfScript /\ UNCHANGED i
    /\ UNCHANGED <<count, email_count,
                   duck_username, username, otp_input, token,
                   bearer_token, request>>

----------------------------------------------------------------------------
Next ==
    \/ get_count_of_addresses
    \/ get_username
    \/ send_otp_email_request
    \/ send_otp_email_response
    \/ get_token_input
    \/ get_token_request
    \/ get_token_response
    \/ get_bearer_token_request
    \/ get_bearer_token_response
    \/ get_email_addresses_request
    \/ get_email_addresses_response

Spec == Init /\ [][Next]_vars

\* every prompt is answered and every HTTP call comes back
FairSpec == Spec /\ WF_vars(Next)

TypeOK ==
    /\ pc \in {"count", "username", "loginlink", "loginlink_wait", "otp",
               "login", "login_wait", "dashboard", "dashboard_wait",
               "addresses", "addresses_wait", "exited"}
    /\ exit_status \in {Running, 0, 1, 2}
    /\ raised \in {"none", "SystemExit", "TypeError", "ValueError", "KeyError"}
    /\ email_count \in 0..5
    /\ token \in TokenVals \cup {UNSET}
    /\ bearer_token \in AccessVals \cup {UNSET}
    /\ i \in 0..4

----------------------------------------------------------------------------
(* Vocabulary of the properties *)

IsPrefix(s, t) == Len(s) <= Len(t) /\ SubSeq(t, 1, Len(s)) = s

NumberOf(e) == Cardinality({k \in 1..Len(events) : events[k] = e})

Requests == {"req_loginlink", "req_login", "req_dashboard", "req_addresses"}

NetworkCalls == Cardinality({k \in 1..Len(events) : events[k] \in Requests})

Is2xx(r) == ~r.exc /\ r.status >= 200 /\ r.status <= 299

RECURSIVE AliasRounds(_)
AliasRounds(n) ==
    IF n = 0 THEN <<>>
    ELSE <<"req_addresses", "resp_addresses", "line">> \o AliasRounds(n - 1)

FixedOrder(n) ==
    <<"prompt_count", "prompt_username", "req_loginlink", "resp_loginlink",
      "prompt_otp", "req_login", "resp_login", "req_dashboard",
      "resp_dashboard">> \o AliasRounds(n)

----------------------------------------------------------------------------
----------------------------------------------------------------------------
(* C2: a login or dashboard response that was received and parsed and      *)
(* lacks the expected field ends the run with exit status 2, not the       *)
(* status 1 of a transport failure.                                        *)
C2_MalformedExitsWith2 ==
    ( /\ pc = "exited"
      /\ \/ request.ep = "login" /\ events[Len(events)] = "resp_login"
         \/ request.ep = "dashboard"
      /\ ~response.exc /\ response.json
      /\ \/ request.ep = "login" /\ ~response.has
         \/ request.ep = "dashboard" /\ (~response.user \/ ~response.has) )
    => exit_status = 2

----------------------------------------------------------------------------
----------------------------------------------------------------------------
(* C4: a typed count that is not an integer in 1..5 ends the run with a    *)
(* failure right after the count prompt: no identifier prompt, no network  *)
(* call.                                                                   *)

\* the text without leading and trailing blanks
RECURSIVE Strip(_)
Strip(s) ==
    IF Len(s) = 0 THEN s
    ELSE IF Head(s) = " " THEN Strip(Tail(s))
    ELSE IF s[Len(s)] = " " THEN Strip(SubSeq(s, 1, Len(s) - 1))
    ELSE s

DecimalChars == AsciiDigits \cup {"fw3"}

\* the integers a text denotes: an optional sign and decimal digits
Denoted(s) ==
    LET t == Strip(s)
        neg == Len(t) > 0 /\ t[1] = "-"
        d == IF neg THEN Tail(t) ELSE t
    IN  IF Len(d) > 0 /\ \A k \in 1..Len(d) : d[k] \in DecimalChars
        THEN {IF neg THEN 0 - DecimalValue(d) ELSE DecimalValue(d)}
        ELSE {}

NumericInRange(s) == \E n \in Denoted(s) : n >= 1 /\ n <= 5

C4_BadCountNoNetwork ==
    (Len(events) > 0 /\ ~NumericInRange(count))
    => /\ pc = "exited"
       /\ exit_status # 0
       /\ raised \in {"TypeError", "ValueError"}
       /\ events = <<"prompt_count">>
       /\ NetworkCalls = 0

C4_Witness ==
    /\ pc = "exited"
    /\ count = <<"0">>
    /\ NetworkCalls = 0

----------------------------------------------------------------------------
(* C5: an account identifier with an "@" in it ends the run with a         *)
(* failure right after the identifier prompt, with no network call,        *)
(* whatever count in 1..5 was accepted before.                             *)
C5_AtSignNoNetwork ==
    (Len(events) > 1 /\ "@" \in Range(duck_username))
    => /\ pc = "exited"
       /\ exit_status # 0
       /\ raised = "ValueError"
       /\ events = <<"prompt_count", "prompt_username">>
       /\ NetworkCalls = 0

C5_Witness ==
    /\ pc = "exited"
    /\ duck_username = <<"a", "@">>
    /\ email_count = 5
    /\ NetworkCalls = 0

----------------------------------------------------------------------------
(* C6: with an empty authentication token the run never issues the         *)
(* dashboard request nor any later call: it is at the entry of             *)
(* get_bearer_token or has ended there with the precondition error.        *)
C6_EmptyTokenNoDashboard ==
    token = ""
    => /\ NumberOf("req_dashboard") = 0
       /\ NumberOf("req_addresses") = 0
       /\ NetworkCalls = 2
       /\ \/ pc = "dashboard"
          \/ pc = "exited" /\ raised = "ValueError" /\ exit_status # 0

C6_Witness ==
    /\ token = ""
    /\ pc = "exited"
    /\ response.has /\ response.val = ""

----------------------------------------------------------------------------
(* C7: when the K-th alias call has failed (transport failure, or a body   *)
(* without address) the run has ended in failure with exactly K-1 lines    *)
(* printed and K alias requests issued: none after the failed one.         *)
AliasCallFailed ==
    /\ request.ep = "addresses"
    /\ events[Len(events)] = "resp_addresses"
    /\ response.exc \/ ~response.json \/ ~response.has

C7_FailedAliasAborts ==
    AliasCallFailed
    => /\ pc = "exited"
       /\ exit_status # 0
       /\ Len(stdout) = NumberOf("req_addresses") - 1
       /\ NumberOf("line") = NumberOf("req_addresses") - 1
       /\ NumberOf("req_addresses") <= email_count

C7_Witness ==
    /\ AliasCallFailed
    /\ response.exc
    /\ email_count = 3
    /\ NumberOf("req_addresses") = 2
    /\ Len(stdout) = 1

----------------------------------------------------------------------------
(* C8: a run whose alias calls all succeed issues exactly count requests   *)
(* and prints exactly count lines; each line is printed by the call that   *)
(* returned its address and carries that call's number and the address     *)
(* followed by "@duck.com"; at most one alias request is in flight.        *)
C8_State ==
    /\ NumberOf("req_addresses") - NumberOf("resp_addresses") \in {0, 1}
    /\ NetworkCalls
       - NumberOf("resp_loginlink") - NumberOf("resp_login")
       - NumberOf("resp_dashboard") - NumberOf("resp_addresses") \in {0, 1}
    /\ \A k \in 1..Len(stdout) : stdout[k].index = k
    /\ (pc = "exited" /\ exit_status = 0) =>
          /\ NumberOf("req_addresses") = email_count
          /\ Len(stdout) = email_count
          /\ email_count \in 1..5

C8_Step ==
    /\ Len(stdout') >= Len(stdout)
    /\ SubSeq(stdout', 1, Len(stdout)) = stdout
    /\ Len(stdout') # Len(stdout) =>
          /\ pc = "addresses_wait"
          /\ stdout' = Append(stdout,
                 [index |-> NumberOf("req_addresses"),
                  text |-> response'.val \o "@duck.com"])
    /\ (pc = "addresses_wait" /\ ~response'.exc /\ response'.json
           /\ response'.has) => Len(stdout') = Len(stdout) + 1

C8_AllAliasesInOrder == [](C8_State) /\ [][C8_Step]_vars

C8_Witness ==
    /\ pc = "exited" /\ exit_status = 0
    /\ email_count = 3
    /\ Len(stdout) = 3
    /\ \A k \in 1..3 : stdout[k] = [index |-> k, text |-> "abc123@duck.com"]

----------------------------------------------------------------------------
(* C9: when get_bearer_token has got a dashboard response that carries     *)
(* user.access_token, it returns that value unchanged, and the token it    *)
(* was given was not empty.                                                *)
C9_AccessTokenReturned ==
    ( /\ request.ep = "dashboard"
      /\ pc # "dashboard_wait"
      /\ ~response.exc /\ response.json /\ response.user /\ response.has )
    => /\ pc = "addresses"
       /\ bearer_token = response.val
       /\ token # ""

C9_Witness ==
    /\ request.ep = "dashboard"
    /\ pc = "addresses"
    /\ token = "tokA"
    /\ response.val = "accB"
    /\ bearer_token = "accB"

----------------------------------------------------------------------------
(* C10: the OTP in the login request is the typed OTP with every space     *)
(* replaced by "+", so it holds no space.                                  *)
C10_OtpNormalized ==
    request.ep = "login"
    => /\ request.otp = str_replace(otp_input, " ", "+")
       /\ " " \notin Range(request.otp)

----------------------------------------------------------------------------
(* C11: at every stage a response with a non-2xx status is fatal: once a   *)
(* call has come back with such a status the run has ended in failure, so  *)
(* its body is never taken as a token or as an address.                    *)
CallReturned ==
    /\ Len(events) > 0
    /\ events[Len(events)] \in {"resp_loginlink", "resp_login",
                                "resp_dashboard", "resp_addresses", "line"}

C11_Non2xxIsFatal ==
    (CallReturned /\ ~response.exc /\ ~Is2xx(response))
    => /\ pc = "exited"
       /\ exit_status # 0
       /\ request.ep = "login" => token = UNSET
       /\ request.ep = "dashboard" => bearer_token = UNSET
       /\ request.ep = "addresses" =>
             Len(stdout) = NumberOf("req_addresses") - 1

----------------------------------------------------------------------------
(* C12: a rejected count is classified by cause: a text that denotes no    *)
(* integer fails as not numeric (TypeError "Entry must be a number!", or   *)
(* the ValueError of int() itself), a text that denotes an integer outside *)
(* 1..5 fails as out of range (ValueError "Entry be between 1 and 5"), a   *)
(* text that denotes an integer in 1..5 is accepted and that integer is    *)
(* the count.                                                              *)
C12_CountClassified ==
    Len(events) > 0 =>
       /\ Denoted(count) = {} =>
             /\ events = <<"prompt_count">> /\ pc = "exited"
             /\ raised \in {"TypeError", "ValueError"}
             /\ raised = "ValueError" => ~str_int(count).ok
       /\ \A n \in Denoted(count) :
             IF n >= 1 /\ n <= 5
             THEN /\ email_count = n
                  /\ Len(events) = 1 => pc = "username"
             ELSE /\ events = <<"prompt_count">> /\ pc = "exited"
                  /\ raised = "ValueError"

----------------------------------------------------------------------------
(* C13: every alias request carries a non-empty access token: an empty     *)
(* user.access_token ends the run before any alias request.                *)
C13_AccessTokenNonEmpty ==
    /\ request.ep = "addresses" => request.auth # ""
    /\ bearer_token = "" =>
          /\ pc = "exited" /\ exit_status # 0
          /\ NumberOf("req_addresses") = 0

----------------------------------------------------------------------------
(* C14: no retry, no recovery: the login-link, login and dashboard         *)
(* endpoints are requested at most once each and the OTP is asked for at   *)
(* most once; once a stage has failed (its call raised, its body was       *)
(* unusable, the login-link status was not 2xx, or it raised an error      *)
(* itself) the run has ended and no step of the script is possible any     *)
(* more.  (Statuses the later stages do not look at are the matter of      *)
(* C11.)                                                                   *)
StageFailed ==
    \/ raised # "none"
    \/ exit_status \notin {Running, 0}
    \/ /\ CallReturned
       /\ \/ response.exc
          \/ request.ep = "loginlink" /\ ~Is2xx(response)
          \/ /\ request.ep \in {"login", "dashboard", "addresses"}
             /\ ~response.json \/ ~response.has
          \/ request.ep = "dashboard" /\ ~response.user

----------------------------------------------------------------------------
(* C15: alias output is streamed: each line follows the response of its    *)
(* own request and is out before the next request is issued, so the lines  *)
(* printed always number the alias calls that have come back with an       *)
(* address.                                                                *)
Before(p, e) == Cardinality({k \in 1..(p - 1) : events[k] = e})

SuccessfulAliasCalls ==
    NumberOf("resp_addresses") - (IF AliasCallFailed THEN 1 ELSE 0)

C15_Streamed ==
    /\ Len(stdout) = NumberOf("line")
    /\ Len(stdout) = SuccessfulAliasCalls
    /\ \A p \in 1..Len(events) :
          /\ events[p] = "req_addresses" =>
                Before(p, "line") = Before(p, "req_addresses")
          /\ events[p] = "line" =>
                /\ p > 1 /\ events[p - 1] = "resp_addresses"
                /\ Before(p, "line") + 1 = Before(p, "req_addresses")

C15_Witness ==
    /\ pc = "addresses_wait"
    /\ email_count = 3
    /\ NumberOf("req_addresses") = 3
    /\ Len(stdout) = 2

----------------------------------------------------------------------------
(* C16: tokens are handed on unchanged: the dashboard request carries the  *)
(* token of the login response, every alias request carries the            *)
(* user.access_token of the dashboard response, the same for all of them,  *)
(* and not the authentication token.                                       *)
C16_State ==
    /\ pc = "dashboard_wait" =>
          /\ request.ep = "dashboard"
          /\ response.has /\ token = response.val
          /\ request.auth = response.val
    /\ (request.ep = "dashboard" /\ pc = "addresses") =>
          /\ response.has /\ bearer_token = response.val
    /\ request.ep = "addresses" =>
          /\ request.auth = bearer_token
          /\ bearer_token # token => request.auth # token

C16_Step ==
    /\ token # UNSET => token' = token
    /\ bearer_token # UNSET => bearer_token' = bearer_token
    /\ request.ep = "addresses" => request' = request

C16_TokensHandedOn == [](C16_State) /\ [][C16_Step]_vars

C16_Witness ==
    /\ pc = "exited" /\ exit_status = 0
    /\ email_count = 2
    /\ token = "tokB"
    /\ request.ep = "addresses" /\ request.auth = "accA"

----------------------------------------------------------------------------
(* C17: lines printed <= alias requests issued <= count <= 5, and the      *)
(* count, once get_count_of_addresses has returned it, is in 1..5 and      *)
(* never changes.                                                          *)
CountAccepted == Len(events) > 1 \/ (Len(events) = 1 /\ pc # "exited")

C17_State ==
    /\ Len(stdout) <= NumberOf("req_addresses")
    /\ NumberOf("line") <= NumberOf("req_addresses")
    /\ NumberOf("req_addresses") <= email_count
    /\ NumberOf("req_addresses") <= 5
    /\ CountAccepted => email_count \in 1..5
    /\ ~CountAccepted => email_count = 0

C17_Step == CountAccepted => email_count' = email_count

C17_CountBoundsTheLoop == [](C17_State) /\ [][C17_Step]_vars

C17_Witness ==
    /\ email_count = 5
    /\ NumberOf("req_addresses") = 5
    /\ Len(stdout) = 5

----------------------------------------------------------------------------
(* C18: when every prompt is answered and every call comes back (FairSpec) *)
(* the run ends, with exit status 0 or with one failure, and it never      *)
(* makes more than 3 + count, hence never more than 8, network calls.      *)
C18_Bound ==
    /\ NetworkCalls <= 3 + email_count
    /\ NetworkCalls <= 8
    /\ pc = "exited" => exit_status \in {0, 1, 2}

C18_Terminates == <>[](pc = "exited") /\ [](C18_Bound)

C18_Witness ==
    /\ pc = "exited"
    /\ NetworkCalls = 8
    /\ exit_status = 0

----------------------------------------------------------------------------
(* C19: a run ends with exit status 0 only after all four stages returned  *)
(* their result and exactly count lines were printed; a run that ends with *)
(* fewer than count lines ends with a failure.                             *)
C19_NormalEndIsComplete ==
    pc = "exited" =>
       /\ exit_status = 0 =>
             /\ raised = "none"
             /\ email_count \in 1..5
             /\ Len(stdout) = email_count
             /\ events = FixedOrder(email_count)
             /\ token \notin {UNSET, ""}
             /\ bearer_token # UNSET
       /\ (email_count = 0 \/ Len(stdout) < email_count) =>
             /\ exit_status \notin {Running, 0}
             /\ raised # "none"

C19_Witness ==
    /\ pc = "exited"
    /\ email_count = 4
    /\ Len(stdout) = 3
    /\ exit_status = 1

=============================================================================
